---- MODULE Spec2Model ----
(***************************************************************************)
(* A model of cxxprops::Properties (src/cxxprops.h): the template          *)
(* expander, the line scanner with its prefix stack, the escape codec, the *)
(* property table with its mutators, and the renderer.                     *)
(*                                                                         *)
(* A std::string is a TLA+ string; TLC evaluates Len, SubSeq and \o on     *)
(* strings, so the character at 1-based position i of s is SubSeq(s,i,i).  *)
(* std::string::npos is modelled by position 0.                            *)
(***************************************************************************)
EXTENDS Integers, Sequences, FiniteSets, TLC

VARIABLES
    lines,        \* std::vector<Line> lines
    props,        \* std::unordered_map<std::string, unique_ptr<Prop>> props
    prefixStack,  \* std::vector<std::string> prefixStack
    hist,         \* history: the mutating calls made on the object so far
    ret           \* the last call: its name, arguments and what it returned

vars == <<lines, props, prefixStack, hist, ret>>

(***************************************************************************)
(* Strings                                                                 *)
(***************************************************************************)

\* const std::string WS = " \n\r\t\v\f" (TLA+ has no \v escape; no input holds one)
WS == {" ", "\n", "\r", "\t", "\f"}

CharAt(s, i) == SubSeq(s, i, i)

\* str.substr(pos) with a 0-based pos, as a 1-based suffix
SubstrFrom(s, i) == SubSeq(s, i, Len(s))

\* std::string::find_first_not_of(WS): 1-based position, 0 for npos
FindFirstNotOfWS(s) ==
    IF \E i \in 1..Len(s) : CharAt(s, i) \notin WS
    THEN CHOOSE i \in 1..Len(s) :
            /\ CharAt(s, i) \notin WS
            /\ \A j \in 1..(i - 1) : CharAt(s, j) \in WS
    ELSE 0

\* std::string::find_last_not_of(WS): 1-based position, 0 for npos
FindLastNotOfWS(s) ==
    IF \E i \in 1..Len(s) : CharAt(s, i) \notin WS
    THEN CHOOSE i \in 1..Len(s) :
            /\ CharAt(s, i) \notin WS
            /\ \A j \in (i + 1)..Len(s) : CharAt(s, j) \in WS
    ELSE 0

\* std::string::find_first_of("="): 1-based position, 0 for npos
FindAssign(s) ==
    IF \E i \in 1..Len(s) : CharAt(s, i) = "="
    THEN CHOOSE i \in 1..Len(s) :
            /\ CharAt(s, i) = "="
            /\ \A j \in 1..(i - 1) : CharAt(s, j) # "="
    ELSE 0

\* trimright(str, trimmed): the output parameter is left alone when str is all whitespace
trimright2(str, trimmed) ==
    LET s == FindLastNotOfWS(str)
    IN  IF s = 0
        THEN [str |-> "", trimmed |-> trimmed]
        ELSE [str |-> SubSeq(str, 1, s), trimmed |-> SubstrFrom(str, s + 1)]

\* trimleft(str, trimmed)
trimleft2(str, trimmed) ==
    LET s == FindFirstNotOfWS(str)
    IN  IF s = 0
        THEN [str |-> "", trimmed |-> trimmed]
        ELSE [str |-> SubstrFrom(str, s), trimmed |-> SubSeq(str, 1, s - 1)]

\* trim(str, trimmedLeft, trimmedRight) == trimright(trimleft(str, l), r)
trim3(str, trimmedLeft, trimmedRight) ==
    LET l == trimleft2(str, trimmedLeft)
        r == trimright2(l.str, trimmedRight)
    IN  [str |-> r.str, left |-> l.trimmed, right |-> r.trimmed]

\* trim(str)
trim(str) == trim3(str, "", "").str

\* trimright(str)
trimright(str) == trimright2(str, "").str

\* endswith(str, ch): the last non-whitespace character is ch
endswith(str, ch) ==
    LET pos == FindLastNotOfWS(str)
    IN  IF pos = 0 THEN FALSE ELSE CharAt(str, pos) = ch

\* std::string::pop_back()
PopBack(s) == SubSeq(s, 1, Len(s) - 1)

\* the first non-whitespace character of str, "" when there is none
FirstNonWS(str) ==
    LET pos == FindFirstNotOfWS(str)
    IN  IF pos = 0 THEN "" ELSE CharAt(str, pos)

isTemplateVariable(str) == FirstNonWS(str) = "%"

isTemplateStart(str) == FirstNonWS(str) = "<"

isTemplateEnd(str) ==
    LET pos == FindFirstNotOfWS(str)
    IN  IF pos = 0 THEN FALSE
        ELSE CharAt(str, pos) = "<" /\ pos + 1 <= Len(str) /\ CharAt(str, pos + 1) = "/"

isComment(str) == FirstNonWS(str) \in {"#", "!"}

isBlockStart(str) == FirstNonWS(str) = "{"

isBlockEnd(str) == FirstNonWS(str) = "}"

isMultiLine(str) == endswith(str, "\\")

\* std::all_of(str.begin(), str.end(), isspace)
isEmptyLine(str) == \A i \in 1..Len(str) : CharAt(str, i) \in WS

\* unquote(str): one layer of matching quotes around a string longer than 2
unquote(str) ==
    IF /\ Len(str) > 2
       /\ \/ (CharAt(str, 1) = "'" /\ CharAt(str, Len(str)) = "'")
          \/ (CharAt(str, 1) = "\"" /\ CharAt(str, Len(str)) = "\"")
    THEN SubSeq(str, 2, Len(str) - 1)
    ELSE str

\* the loop of unescape: i is the 0-based index of the code
RECURSIVE UnescapeLoop(_, _, _)
UnescapeLoop(str, i, acc) ==
    IF i < Len(str) - 1 /\ CharAt(str, i + 1) = "\\"
    THEN UnescapeLoop(str, i + 2, acc \o CharAt(str, i + 2))
    ELSE acc \o SubstrFrom(str, i + 1)

\* unescape(str)
unescape(str) ==
    IF Len(str) > 1 /\ CharAt(str, 1) = "\\"
    THEN UnescapeLoop(str, 0, "")
    ELSE str

\* replaceAll(str, "\n", "\\\n    ")
RECURSIVE ReplaceNewlines(_)
ReplaceNewlines(s) ==
    IF s = "" THEN ""
    ELSE (IF Head(s) = "\n" THEN "\\\n    " ELSE Head(s)) \o ReplaceNewlines(Tail(s))

\* the first loop of escape: a backslash before each of the s leading characters
RECURSIVE EscapeLeading(_, _)
EscapeLeading(str, n) ==
    IF n = 0 THEN ""
    ELSE EscapeLeading(str, n - 1) \o "\\" \o CharAt(str, n)

\* escape(str)
escape(str) ==
    LET s == FindFirstNotOfWS(str)
    IN  IF s # 0
        THEN EscapeLeading(str, s - 1) \o ReplaceNewlines(SubstrFrom(str, s))
        ELSE str

\* join(vs, ".", true)
RECURSIVE JoinDots(_)
JoinDots(vs) ==
    IF Len(vs) = 1 THEN vs[1]
    ELSE JoinDots(SubSeq(vs, 1, Len(vs) - 1)) \o "." \o vs[Len(vs)]

join(vs) ==
    IF vs # <<>>
    THEN LET str == JoinDots(vs)
         IN  IF str # "" THEN str \o "." ELSE str
    ELSE ""

\* (mutant) prependPrefix qualifying with the innermost block only
prependPrefixInnermost(stack, key) ==
    IF stack # <<>> THEN stack[Len(stack)] \o "." \o key ELSE key

\* prependPrefix(key), on the prefix stack stack
prependPrefix(stack, key) ==
    IF stack # <<>> THEN join(stack) \o key ELSE key

(***************************************************************************)
(* Streams and the template expander                                       *)
(***************************************************************************)

\* position of the first "\n" of s, 0 when there is none
FindNewline(s) ==
    IF \E i \in 1..Len(s) : CharAt(s, i) = "\n"
    THEN CHOOSE i \in 1..Len(s) :
            /\ CharAt(s, i) = "\n"
            /\ \A j \in 1..(i - 1) : CharAt(s, j) # "\n"
    ELSE 0

\* the lines that repeated getline(is, line) calls read from a stream holding s
RECURSIVE GetLines(_)
GetLines(s) ==
    IF s = "" THEN <<>>
    ELSE LET n == FindNewline(s)
         IN  IF n = 0 THEN <<s>>
             ELSE <<SubSeq(s, 1, n - 1)>> \o GetLines(SubstrFrom(s, n + 1))

\* os << line << std::endl, for each line of ls
RECURSIVE PutLines(_)
PutLines(ls) ==
    IF ls = <<>> THEN "" ELSE Head(ls) \o "\n" \o PutLines(Tail(ls))

\* trimmed.substr(1, trimmed.size()-2)
TemplateName(trimmed) == SubSeq(trimmed, 2, Len(trimmed) - 1)

\* the inner while of preprocess: index of the first template end at or after j, 0 at end of input
FindTemplateEnd(ls, j) ==
    IF \E e \in j..Len(ls) : isTemplateEnd(ls[e])
    THEN CHOOSE e \in j..Len(ls) :
            /\ isTemplateEnd(ls[e])
            /\ \A f \in j..(e - 1) : ~isTemplateEnd(ls[f])
    ELSE 0

\* (mutant) the outer while of preprocess, capturing the closing line with the block
RECURSIVE PreprocessLoopOffByOne(_, _, _, _)
PreprocessLoopOffByOne(ls, i, tvars, os) ==
    IF i > Len(ls) THEN [thrown |-> "", os |-> os]
    ELSE LET line == ls[i]
             trimmed == trim(line)
             varname == TemplateName(trimmed)
         IN  IF isTemplateStart(line)
             THEN IF Len(trimmed) < 3
                  THEN [thrown |-> "Invalid template definition syntax", os |-> os]
                  ELSE LET e == FindTemplateEnd(ls, i + 1)
                       IN  IF e = 0
                           THEN [thrown |-> "Missing closing tag in template definition", os |-> os]
                           ELSE PreprocessLoopOffByOne(ls, e + 1,
                                    (varname :> SubSeq(ls, i + 1, e)) @@ tvars, os)
             ELSE IF isTemplateVariable(line)
             THEN IF Len(trimmed) < 3
                  THEN [thrown |-> "Invalid template variable syntax", os |-> os]
                  ELSE IF varname \notin DOMAIN tvars
                  THEN [thrown |-> "Template variable is not defined", os |-> os]
                  ELSE PreprocessLoopOffByOne(ls, i + 1, tvars, os \o PutLines(tvars[varname]))
             ELSE PreprocessLoopOffByOne(ls, i + 1, tvars, os \o line \o "\n")

\* the outer while of preprocess, from line i, with the definitions tvars and the output os so far
RECURSIVE PreprocessLoop(_, _, _, _)
PreprocessLoop(ls, i, tvars, os) ==
    IF i > Len(ls) THEN [thrown |-> "", os |-> os]
    ELSE LET line == ls[i]
             trimmed == trim(line)
             varname == TemplateName(trimmed)
         IN  IF isTemplateStart(line)
             THEN IF Len(trimmed) < 3
                  THEN [thrown |-> "Invalid template definition syntax", os |-> os]
                  ELSE LET e == FindTemplateEnd(ls, i + 1)
                       IN  IF e = 0
                           THEN [thrown |-> "Missing closing tag in template definition", os |-> os]
                           ELSE PreprocessLoop(ls, e + 1,
                                    (varname :> SubSeq(ls, i + 1, e - 1)) @@ tvars, os)
             ELSE IF isTemplateVariable(line)
             THEN IF Len(trimmed) < 3
                  THEN [thrown |-> "Invalid template variable syntax", os |-> os]
                  ELSE IF varname \notin DOMAIN tvars
                  THEN [thrown |-> "Template variable is not defined", os |-> os]
                  ELSE PreprocessLoop(ls, i + 1, tvars, os \o PutLines(tvars[varname]))
             ELSE PreprocessLoop(ls, i + 1, tvars, os \o line \o "\n")

\* preprocess(is): the expanded stream, or the exception thrown (with the output written so far)
preprocess(text) == PreprocessLoop(GetLines(text), 1, <<>>, "")

(***************************************************************************)
(* The scanner                                                             *)
(***************************************************************************)

\* struct Line, as Line(str) constructs it
Line(str) ==
    [line |-> str, linetype |-> "Property", key |-> "", bareKey |-> "",
     beforeKey |-> "", afterKey |-> " ", beforeValue |-> " ", afterValue |-> "",
     lacksAssignment |-> FALSE]

\* struct Prop
Prop(key, value, modified) == [key |-> key, value |-> value, modified |-> modified]

\* props.insert(std::make_pair(key, prop)): an existing entry is kept
MapInsert(m, key, prop) ==
    IF key \in DOMAIN m THEN m ELSE (key :> prop) @@ m

\* (mutant) the inner while of parse, right-trimming every continuation piece
RECURSIVE ContinuationLoopTrimAll(_, _, _)
ContinuationLoopTrimAll(value, ls, j) ==
    IF j > Len(ls) THEN [value |-> value, next |-> j]
    ELSE LET theline == trim(ls[j])
         IN  IF isMultiLine(theline)
             THEN ContinuationLoopTrimAll(value \o unquote(trimright(PopBack(theline))), ls, j + 1)
             ELSE [value |-> value \o unquote(theline), next |-> j + 1]

\* the inner while of parse: the value after the continuation lines from ls[j] on,
\* and the index of the first line the loop has not read
RECURSIVE ContinuationLoop(_, _, _)
ContinuationLoop(value, ls, j) ==
    IF j > Len(ls) THEN [value |-> value, next |-> j]
    ELSE LET theline == trim(ls[j])
             popped == PopBack(theline)
         IN  IF isMultiLine(theline)
             THEN ContinuationLoop(
                      value \o (IF endswith(popped, "\"") \/ endswith(popped, "\\")
                                THEN unquote(trimright(popped))
                                ELSE popped),
                      ls, j + 1)
             ELSE [value |-> value \o unquote(theline), next |-> j + 1]

\* the Property branch of parse for the line ls[i]: the Line entry, the Prop built,
\* the new pending prefix and the index of the next line to read
ScanProperty(ls, i, stack) ==
    LET line == ls[i]
        assignPos == FindAssign(line)
        k == IF assignPos = 0
             THEN trim3(line, "", " ")
             ELSE trim3(SubSeq(line, 1, assignPos - 1), "", " ")
        v == IF assignPos = 0
             THEN [str |-> "", left |-> " ", right |-> ""]
             ELSE trim3(SubstrFrom(line, assignPos + 1), " ", "")
        value == unescape(v.str)
        qkey == prependPrefix(stack, k.str)
        cont == IF isMultiLine(value)
                THEN ContinuationLoop(unquote(trimright(PopBack(value))), ls, i + 1)
                ELSE [value |-> unquote(value), next |-> i + 1]
    IN  [entry |-> [line |-> line, linetype |-> "Property", key |-> qkey,
                    bareKey |-> k.str, beforeKey |-> k.left, afterKey |-> k.right,
                    beforeValue |-> v.left, afterValue |-> v.right,
                    lacksAssignment |-> (assignPos = 0)],
         prop |-> Prop(qkey, cont.value, FALSE),
         prefix |-> IF assignPos = 0 THEN k.str ELSE "",
         next |-> cont.next]

\* the Line entries of the continuation lines ls[from..to]
MultilineEntries(ls, from, to) ==
    [n \in 1..(to - from + 1) |-> [Line(ls[from + n - 1]) EXCEPT !.linetype = "MultilineValue"]]

\* the while loop of parse from line i: doc is the object's lines, props and prefixStack
RECURSIVE ParseLoop(_, _, _, _)
ParseLoop(doc, prefix, ls, i) ==
    IF i > Len(ls) THEN doc
    ELSE LET line == ls[i]
             entry(t) == [Line(line) EXCEPT !.linetype = t]
         IN  IF isComment(line)
             THEN ParseLoop([doc EXCEPT !.lines = Append(@, entry("Comment"))], prefix, ls, i + 1)
             ELSE IF isEmptyLine(line)
             THEN ParseLoop([doc EXCEPT !.lines = Append(@, entry("Empty"))], prefix, ls, i + 1)
             ELSE IF isBlockStart(line)
             THEN ParseLoop([doc EXCEPT !.lines = Append(@, entry("BlockStart")),
                                        !.prefixStack = IF prefix # "" THEN Append(@, prefix) ELSE @],
                            prefix, ls, i + 1)
             ELSE IF isBlockEnd(line)
             THEN ParseLoop([doc EXCEPT !.lines = Append(@, entry("BlockEnd")),
                                        !.prefixStack = IF @ # <<>> THEN SubSeq(@, 1, Len(@) - 1) ELSE @],
                            prefix, ls, i + 1)
             ELSE LET p == ScanProperty(ls, i, doc.prefixStack)
                  IN  ParseLoop([doc EXCEPT
                                    !.lines = Append(@, p.entry) \o MultilineEntries(ls, i + 1, p.next - 1),
                                    !.props = MapInsert(@, p.prop.key, p.prop)],
                                p.prefix, ls, p.next)

\* (mutant) parse scanning what preprocess had written when it threw
parseKeepingPartial(doc, text) ==
    LET pre == preprocess(text)
    IN  [doc |-> ParseLoop(doc, "", GetLines(pre.os), 1), thrown |-> pre.thrown]

\* parse(stream) on the object doc: the object afterwards and the exception thrown, if any
parse(doc, text) ==
    LET pre == preprocess(text)
    IN  IF pre.thrown # ""
        THEN [doc |-> doc, thrown |-> pre.thrown]
        ELSE [doc |-> ParseLoop(doc, "", GetLines(pre.os), 1), thrown |-> ""]

(***************************************************************************)
(* The renderer                                                            *)
(***************************************************************************)

\* std::string(n, ' ') for n >= 0
RECURSIVE Spaces(_)
Spaces(n) == IF n <= 0 THEN "" ELSE " " \o Spaces(n - 1)

\* case LineType::Empty of text: prevType is prev->linetype, "none" for prev == nullptr
RenderEmpty(prettyPrint, prevType) ==
    IF ~prettyPrint \/ ~(prevType = "Empty") THEN "\n" ELSE ""

\* case LineType::Comment of text
RenderComment(entry, prettyPrint) ==
    (IF prettyPrint THEN trim(entry.line) ELSE entry.line) \o "\n"

\* (mutant) case LineType::Property of text without the check that the property exists
RenderPropertyUnchecked(entry, ps, prettyPrint, prefixDepth) ==
    LET value == IF entry.key \in DOMAIN ps THEN ps[entry.key].value ELSE ""
    IN  (IF prettyPrint
         THEN (IF prefixDepth > 0 THEN Spaces(prefixDepth * 4) ELSE "")
              \o entry.bareKey
              \o (IF value # "" THEN " = " \o escape(value) ELSE "")
         ELSE entry.beforeKey \o entry.bareKey \o entry.afterKey
              \o (IF ~entry.lacksAssignment
                  THEN "=" \o entry.beforeValue \o escape(value) \o entry.afterValue
                  ELSE ""))
        \o "\n"

\* case LineType::Property of text, with the property table ps and the current prefixDepth
RenderProperty(entry, ps, prettyPrint, prefixDepth) ==
    IF entry.key \in DOMAIN ps
    THEN LET match == ps[entry.key]
         IN  (IF prettyPrint
              THEN (IF prefixDepth > 0 THEN Spaces(prefixDepth * 4) ELSE "")
                   \o entry.bareKey
                   \o (IF match.value # "" THEN " = " \o escape(match.value) ELSE "")
              ELSE entry.beforeKey \o entry.bareKey \o entry.afterKey
                   \o (IF ~entry.lacksAssignment \/ match.modified
                       THEN "=" \o entry.beforeValue \o escape(match.value) \o entry.afterValue
                       ELSE ""))
             \o "\n"
    ELSE ""

\* the for loop of text from entry idx: what each entry wrote to ss, in order. A BlockEnd
\* that takes prefixDepth below zero asks for std::string(size_t(-4), ' '), which throws
\* std::length_error out of text.
RECURSIVE TextLoop(_, _, _, _, _, _)
TextLoop(ls, ps, prettyPrint, idx, prefixDepth, pieces) ==
    IF idx > Len(ls) THEN [pieces |-> pieces, thrown |-> ""]
    ELSE LET entry == ls[idx]
             prevType == IF idx = 1 THEN "none" ELSE ls[idx - 1].linetype
             t == entry.linetype
         IN  IF t = "BlockEnd" /\ prefixDepth - 1 < 0
             THEN [pieces |-> pieces, thrown |-> "std::length_error"]
             ELSE TextLoop(ls, ps, prettyPrint, idx + 1,
                      IF t = "BlockStart" THEN prefixDepth + 1
                      ELSE IF t = "BlockEnd" THEN prefixDepth - 1
                      ELSE prefixDepth,
                      Append(pieces,
                          IF t = "Empty" THEN RenderEmpty(prettyPrint, prevType)
                          ELSE IF t = "Comment" THEN RenderComment(entry, prettyPrint)
                          ELSE IF t = "Property" THEN RenderProperty(entry, ps, prettyPrint, prefixDepth)
                          ELSE IF t = "BlockStart" THEN Spaces(prefixDepth * 4) \o "{\n"
                          ELSE IF t = "BlockEnd" THEN Spaces((prefixDepth - 1) * 4) \o "}\n"
                          ELSE ""))

\* what each Line entry contributes to text(prettyPrint), and the exception thrown, if any
TextPieces(ls, ps, prettyPrint) == TextLoop(ls, ps, prettyPrint, 1, 0, <<>>)

\* ss.str()
RECURSIVE Concat(_)
Concat(pieces) == IF pieces = <<>> THEN "" ELSE Head(pieces) \o Concat(Tail(pieces))

\* text(prettyPrint)
text(ls, ps, prettyPrint) ==
    LET r == TextPieces(ls, ps, prettyPrint)
    IN  [out |-> IF r.thrown = "" THEN Concat(r.pieces) ELSE "", thrown |-> r.thrown]

(***************************************************************************)
(* The property table                                                      *)
(***************************************************************************)

\* hasKey(key)
hasKey(ps, key) == key \in DOMAIN ps

\* get(key)
get(ps, key) == IF key \in DOMAIN ps THEN ps[key].value ELSE ""

\* get(key, defaultValue)
getOr(ps, key, defaultValue) == IF hasKey(ps, key) THEN get(ps, key) ELSE defaultValue

\* (mutant) getBool falling back to the default for a value that is not a truth word
getBoolDefaulting(ps, key, defaultValue) ==
    IF hasKey(ps, key)
    THEN LET val == get(ps, key)
         IN  IF val = "true" \/ val = "1" \/ val = "yes" THEN TRUE ELSE defaultValue
    ELSE defaultValue

\* getBool(key, defaultValue)
getBool(ps, key, defaultValue) ==
    IF hasKey(ps, key)
    THEN LET val == get(ps, key)
         IN  val = "true" \/ val = "1" \/ val = "yes"
    ELSE defaultValue

\* (mutant) put rewriting the Line entries of a key that is already in the table
putRewritingLine(doc, key, value) ==
    IF key \in DOMAIN doc.props
    THEN [doc |-> [doc EXCEPT
                      !.lines = [n \in DOMAIN @ |->
                                    IF @[n].linetype = "Property" /\ @[n].key = key
                                    THEN [@[n] EXCEPT !.line = key \o " = " \o value]
                                    ELSE @[n]],
                      !.props = [@ EXCEPT ![key] = Prop(key, value, TRUE)]],
          old |-> doc.props[key].value]
    ELSE [doc |-> [doc EXCEPT
                      !.lines = Append(@, [Line(key \o " = " \o value) EXCEPT
                                              !.key = key, !.bareKey = key]),
                      !.props = MapInsert(@, key, Prop(key, value, TRUE))],
          old |-> ""]

\* put(key, value) on doc: the object afterwards and the old value returned
put(doc, key, value) ==
    IF key \in DOMAIN doc.props
    THEN [doc |-> [doc EXCEPT !.props = [@ EXCEPT ![key] = Prop(key, value, TRUE)]],
          old |-> doc.props[key].value]
    ELSE [doc |-> [doc EXCEPT
                      !.lines = Append(@, [Line(key \o " = " \o value) EXCEPT
                                              !.key = key, !.bareKey = key]),
                      !.props = MapInsert(@, key, Prop(key, value, TRUE))],
          old |-> ""]

\* remove(key) on the property table
remove(ps, key) ==
    IF key \in DOMAIN ps THEN [k \in DOMAIN ps \ {key} |-> ps[k]] ELSE ps

\* putEmptyLine() on the line sequence
putEmptyLine(ls) == Append(ls, [Line("") EXCEPT !.linetype = "Empty"])

\* putComment(comment) on the line sequence
putComment(ls, comment) ==
    LET line == trim(comment)
        marked == IF CharAt(line, 1) # "#" /\ CharAt(line, 1) # "!" THEN "# " \o line ELSE line
    IN  IF line # ""
        THEN Append(ls, [Line(marked) EXCEPT !.linetype = "Comment"])
        ELSE ls

(***************************************************************************)
(* The object and its calls                                                *)
(***************************************************************************)

\* the object's members as one value
Doc == [lines |-> lines, props |-> props, prefixStack |-> prefixStack]

\* a call and what it returned; thrown is "" when it returned normally
Call(op, args) == [op |-> op, args |-> args]
Ret(op, args, val, thrown) == [op |-> op, args |-> args, val |-> val, thrown |-> thrown]

\* the last call was op(args) and returned val, or threw thrown
Returned(op, args, val, thrown) ==
    ret.op = op /\ ret.args = args /\ ret.val = val /\ ret.thrown = thrown

\* Properties props; (no call made yet)
Init ==
    /\ lines = <<>>
    /\ props = <<>>
    /\ prefixStack = <<>>
    /\ hist = <<>>
    /\ ret = Ret("new", <<>>, "", "")

\* props.parse(stream), the stream holding input
Parse(input) ==
    LET r == parse(Doc, input)
    IN  /\ lines' = r.doc.lines
        /\ props' = r.doc.props
        /\ prefixStack' = r.doc.prefixStack
        /\ hist' = Append(hist, Call("parse", <<input>>))
        /\ ret' = Ret("parse", <<input>>, "", r.thrown)

\* props.put(key, value)
Put(key, value) ==
    LET r == put(Doc, key, value)
    IN  /\ lines' = r.doc.lines
        /\ props' = r.doc.props
        /\ hist' = Append(hist, Call("put", <<key, value>>))
        /\ ret' = Ret("put", <<key, value>>, r.old, "")
        /\ UNCHANGED prefixStack

\* props.remove(key)
Remove(key) ==
    /\ props' = remove(props, key)
    /\ hist' = Append(hist, Call("remove", <<key>>))
    /\ ret' = Ret("remove", <<key>>, "", "")
    /\ UNCHANGED <<lines, prefixStack>>

\* props.putEmptyLine()
PutEmptyLine ==
    /\ lines' = putEmptyLine(lines)
    /\ hist' = Append(hist, Call("putEmptyLine", <<>>))
    /\ ret' = Ret("putEmptyLine", <<>>, "", "")
    /\ UNCHANGED <<props, prefixStack>>

\* props.putComment(comment)
PutComment(comment) ==
    /\ lines' = putComment(lines, comment)
    /\ hist' = Append(hist, Call("putComment", <<comment>>))
    /\ ret' = Ret("putComment", <<comment>>, "", "")
    /\ UNCHANGED <<props, prefixStack>>

\* props.hasKey(key)
HasKey(key) ==
    /\ ret' = Ret("hasKey", <<key>>, hasKey(props, key), "")
    /\ UNCHANGED <<lines, props, prefixStack, hist>>

\* props.get(key)
Get(key) ==
    /\ ret' = Ret("get", <<key>>, get(props, key), "")
    /\ UNCHANGED <<lines, props, prefixStack, hist>>

\* props.get(key, defaultValue)
GetOr(key, defaultValue) ==
    /\ ret' = Ret("getOr", <<key, defaultValue>>, getOr(props, key, defaultValue), "")
    /\ UNCHANGED <<lines, props, prefixStack, hist>>

\* props.getBool(key, defaultValue)
GetBool(key, defaultValue) ==
    /\ ret' = Ret("getBool", <<key, defaultValue>>, getBool(props, key, defaultValue), "")
    /\ UNCHANGED <<lines, props, prefixStack, hist>>

\* props.text(prettyPrint)
Text(prettyPrint) ==
    LET r == text(lines, props, prettyPrint)
    IN  /\ ret' = Ret("text", <<prettyPrint>>, r.out, r.thrown)
        /\ UNCHANGED <<lines, props, prefixStack, hist>>

(***************************************************************************)
(* Inputs                                                                  *)
(***************************************************************************)

\* all sequences of at most n elements of S
SeqsUpTo(S, n) == UNION {[1..k -> S] : k \in 0..n}

\* a text file holding the lines ls, each ended by a newline
TextOf(ls) == PutLines(ls)

(***************************************************************************)
(* Spec: one object through parse, the mutators and the renderer           *)
(***************************************************************************)

\* the number of parse and mutator calls made on one object
MaxOps == 3

\* streams handed to parse: blank lines around a property; a comment, formatted,
\* bare and duplicate keys; a reference to an undefined template after a property;
\* a prefix block
DocInputs ==
    { "\na = 1\n\n\n\n",
      "# c\n a  =  1 \nb\na = 2\n",
      "b = 2\n%t%\n",
      "b\n{\na = 1\n}\n" }

DocKeys == {"a", "b"}

DocValues == {"1", " x\ny"}

DocComments == {"note", " "}

\* a further parse or mutator call is within the bound
CanCall == Len(hist) < MaxOps

Next ==
    \/ CanCall /\ \E input \in DocInputs : Parse(input)
    \/ CanCall /\ \E key \in DocKeys, value \in DocValues : Put(key, value)
    \/ CanCall /\ \E key \in DocKeys : Remove(key)
    \/ CanCall /\ PutEmptyLine
    \/ CanCall /\ \E comment \in DocComments : PutComment(comment)
    \/ \E prettyPrint \in BOOLEAN : Text(prettyPrint)
    \/ \E key \in DocKeys : Get(key)

Spec == Init /\ [][Next]_vars

(***************************************************************************)
(* SpecScan: a fresh object parses one stream, which is then read back     *)
(***************************************************************************)

\* the number of lines of a scanned stream
MaxLines == 3

\* lines of a scanned stream: plain and reformatted assignments to one key, a value
\* continued over two more lines, a blank line, a comment and a quoted value
ScanPalette ==
    { "a = 1",
      " a=2 ",
      "multiline = a \\",
      "    b \\",
      "    c",
      "",
      "# x",
      "q = \"v\"" }

ScanKeys == {"a", "multiline"}

\* the object has parsed exactly one stream, without a template error
ParsedOnce ==
    /\ Len(hist) = 1
    /\ hist[1].op = "parse"
    /\ preprocess(hist[1].args[1]).thrown = ""

\* the stream that was parsed
ParsedInput == hist[1].args[1]

\* the raw text of the Line entries
RawLines == [n \in 1..Len(lines) |-> lines[n].line]

NextScan ==
    \/ hist = <<>> /\ \E ls \in SeqsUpTo(ScanPalette, MaxLines) : Parse(TextOf(ls))
    \/ \E prettyPrint \in BOOLEAN : Text(prettyPrint)
    \/ \E key \in ScanKeys : Get(key)

SpecScan == Init /\ [][NextScan]_vars

\* C1 (as claimed): text(false) right after parse of a fresh object returns the
\* input text byte for byte, whatever its whitespace, quoting or continuation lines.
C1_RoundTrip ==
    (ParsedOnce /\ ret.op = "text" /\ ret.args = <<FALSE>>)
        => (ret.thrown = "" /\ ret.val = ParsedInput)

\* the Line entry at i is a Property line and no later Property line has its key
LastOccurrence(i) ==
    /\ lines[i].linetype = "Property"
    /\ \A j \in (i + 1)..Len(lines) :
          ~(lines[j].linetype = "Property" /\ lines[j].key = lines[i].key)

\* the Line entry at i is a Property line and no earlier Property line has its key
FirstOccurrence(i) ==
    /\ lines[i].linetype = "Property"
    /\ \A j \in 1..(i - 1) :
          ~(lines[j].linetype = "Property" /\ lines[j].key = lines[i].key)

\* C2 (as claimed): after parse, get(key) is the value of the last property line
\* of the input that has this qualified key.
C2_LastOccurrenceWins ==
    ParsedOnce =>
        \A i \in 1..Len(lines) :
            LastOccurrence(i) =>
                get(props, lines[i].key) = ScanProperty(RawLines, i, <<>>).prop.value

\* the text after the first "=" of a line
AfterAssign(line) == SubstrFrom(line, FindAssign(line) + 1)

\* the raw line i assigns a value that ends in a backslash
StartsContinued(raw, i) ==
    FindAssign(raw[i]) # 0 /\ endswith(AfterAssign(raw[i]), "\\")

\* the last line of the value that starts on line i: the first later line that does
\* not end in a backslash, or the last line of the input
ContinuedTo(raw, i) ==
    IF \E e \in (i + 1)..Len(raw) : ~endswith(raw[e], "\\")
    THEN CHOOSE e \in (i + 1)..Len(raw) :
            /\ ~endswith(raw[e], "\\")
            /\ \A f \in (i + 1)..(e - 1) : endswith(raw[f], "\\")
    ELSE Len(raw)

\* s holds no quote, and no backslash except as its last non-blank character
PlainPiece(s) ==
    \A n \in 1..Len(s) :
        /\ CharAt(s, n) \notin {"\"", "'"}
        /\ CharAt(s, n) = "\\" => n = FindLastNotOfWS(s)

PlainPieces(raw, i) ==
    /\ PlainPiece(AfterAssign(raw[i]))
    /\ \A j \in (i + 1)..ContinuedTo(raw, i) : PlainPiece(raw[j])

\* a piece with its trailing backslash and its surrounding whitespace stripped
StrippedPiece(s) ==
    IF endswith(s, "\\") THEN trim(PopBack(trim(s))) ELSE trim(s)

\* a piece with its trailing backslash dropped, stripped of the whitespace before
\* it and, unless a backslash followed, of the whitespace after it
LeftStrippedPiece(s) ==
    IF endswith(s, "\\") THEN PopBack(trim(s)) ELSE trim(s)

\* the pieces on lines j..e joined, every piece fully stripped
RECURSIVE JoinStripped(_, _, _)
JoinStripped(raw, j, e) ==
    IF j > e THEN "" ELSE StrippedPiece(raw[j]) \o JoinStripped(raw, j + 1, e)

\* the pieces on lines j..e joined, every piece stripped on the left only
RECURSIVE JoinLeftStripped(_, _, _)
JoinLeftStripped(raw, j, e) ==
    IF j > e THEN "" ELSE LeftStrippedPiece(raw[j]) \o JoinLeftStripped(raw, j + 1, e)

\* the three lines of the README's and the spec's example
MultilineExample == TextOf(<<"multiline = a \\", "    b \\", "    c">>)

\* C4 (as claimed): a continued value is the concatenation of its pieces, each with
\* its surrounding whitespace and trailing backslash stripped; the example gives "abc".
C4_AllPiecesStripped ==
    ParsedOnce =>
        /\ \A i \in 1..Len(lines) :
              (FirstOccurrence(i) /\ StartsContinued(RawLines, i) /\ PlainPieces(RawLines, i))
                  => get(props, lines[i].key)
                       = StrippedPiece(AfterAssign(RawLines[i]))
                            \o JoinStripped(RawLines, i + 1, ContinuedTo(RawLines, i))
        /\ ParsedInput = MultilineExample => get(props, "multiline") = "abc"

\* C4 (amended): a continued value is the concatenation of its pieces with the
\* trailing backslashes dropped; the first piece and the last are stripped of their
\* surrounding whitespace, but a continuation piece that ends in a backslash is
\* stripped on the left only and keeps the whitespace before its backslash; the
\* example gives "ab c". (Pieces without quotes or further backslashes.)
C4_ContinuationKeepsTrailingSpace ==
    ParsedOnce =>
        /\ \A i \in 1..Len(lines) :
              (FirstOccurrence(i) /\ StartsContinued(RawLines, i) /\ PlainPieces(RawLines, i))
                  => get(props, lines[i].key)
                       = StrippedPiece(AfterAssign(RawLines[i]))
                            \o JoinLeftStripped(RawLines, i + 1, ContinuedTo(RawLines, i))
        /\ ParsedInput = MultilineExample => get(props, "multiline") = "ab c"

\* C4 witness: the example has been parsed and its value read
C4_Witness ==
    /\ ParsedOnce
    /\ ParsedInput = MultilineExample
    /\ [n \in 1..Len(lines) |-> lines[n].linetype]
          = <<"Property", "MultilineValue", "MultilineValue">>
    /\ Returned("get", <<"multiline">>, "ab c", "")

(***************************************************************************)
(* SpecBlocks: a fresh object parses a stream of nested prefix blocks      *)
(***************************************************************************)

\* the nesting depth of the prefix blocks of a stream
MaxDepth == 2

BlockKeys == {"server", "log"}

\* a block body: an optional property, an optional block of depth at most d, an
\* optional property after it
RECURSIVE BlockBodies(_)
BlockBodies(d) ==
    { pre \o blk \o post :
        pre \in {<<>>, <<"x = 1">>},
        blk \in {<<>>} \cup
                (IF d = 0 THEN {}
                 ELSE { <<k, "{">> \o b \o <<"}">> : k \in BlockKeys, b \in BlockBodies(d - 1) }),
        post \in {<<>>, <<"  level = debug">>} }

\* streams of prefix blocks: the bodies, and two blocks side by side
BlockDocs ==
    BlockBodies(MaxDepth) \cup
    { <<k1, "{", "x = 1", "}", k2, "{">> \o b \o <<"}">> :
        k1 \in BlockKeys, k2 \in BlockKeys, b \in BlockBodies(0) }

BlockGetKeys == {"server.log.level", "server.level", "x"}

NextBlocks ==
    \/ hist = <<>> /\ \E ls \in BlockDocs : Parse(TextOf(ls))
    \/ \E prettyPrint \in BOOLEAN : Text(prettyPrint)
    \/ \E key \in BlockGetKeys : Get(key)

SpecBlocks == Init /\ [][NextBlocks]_vars

\* the number of "{" lines minus the number of "}" lines among raw[a..b]
Balance(raw, a, b) ==
    Cardinality({m \in a..b : trim(raw[m]) = "{"}) - Cardinality({m \in a..b : trim(raw[m]) = "}"})

\* the "{" on line j is not yet closed when line i is read
OpenAt(raw, j, i) ==
    /\ j < i
    /\ trim(raw[j]) = "{"
    /\ \A m \in (j + 1)..(i - 1) : Balance(raw, j + 1, m) >= 0

\* the bare keys above the "{" lines among raw[from..i-1] that are open at line i,
\* outermost first, each followed by a dot
RECURSIVE EnclosingPrefix(_, _, _)
EnclosingPrefix(raw, from, i) ==
    IF from >= i THEN ""
    ELSE (IF OpenAt(raw, from, i) THEN trim(raw[from - 1]) \o "." ELSE "")
         \o EnclosingPrefix(raw, from + 1, i)

\* the key written on a property line
BareKeyOf(line) ==
    IF FindAssign(line) = 0 THEN trim(line) ELSE trim(SubSeq(line, 1, FindAssign(line) - 1))

\* C3: in a stream of nested prefix blocks, each opened by a bare-key line followed
\* by a "{" line and closed by a "}" line, every property line is stored under the
\* dot-join of the bare keys of the blocks open at that line followed by its own key,
\* and a line k = v reads back as v; server / log / level = debug gives
\* get("server.log.level") = "debug".
C3_PrefixQualification ==
    ParsedOnce =>
        /\ \A i \in 1..Len(lines) :
              lines[i].linetype = "Property" =>
                  LET qkey == EnclosingPrefix(RawLines, 2, i) \o BareKeyOf(RawLines[i])
                  IN  /\ lines[i].key = qkey
                      /\ hasKey(props, qkey)
                      /\ FindAssign(RawLines[i]) # 0
                            => get(props, qkey) = trim(AfterAssign(RawLines[i]))
        /\ ParsedInput = TextOf(<<"server", "{", "log", "{", "  level = debug", "}", "}">>)
              => get(props, "server.log.level") = "debug"

\* C3 witness: a property two blocks deep and one after the inner block's "}"
C3_Witness ==
    /\ ParsedOnce
    /\ ParsedInput = TextOf(<<"server", "{", "log", "{", "  level = debug", "}",
                              "  level = debug", "}">>)
    /\ DOMAIN props = {"server", "server.log", "server.log.level", "server.level"}
    /\ Returned("get", <<"server.level">>, "debug", "")

(***************************************************************************)
(* SpecTemplates: an object, empty or not, parses a stream with templates  *)
(***************************************************************************)

\* the number of lines of a stream with templates
MaxTemplateLines == 5

\* lines of a stream with templates: a definition's opening and closing tags, a
\* reference, a property and a tag with no name
TemplatePalette == {"<t>", "</t>", "%t%", "k = v", "<>"}

\* the streams: every sequence of palette lines, and a definition that is replaced
\* by a later one before it is referenced
TemplateDocs ==
    { TextOf(ls) : ls \in SeqsUpTo(TemplatePalette, MaxTemplateLines) }
    \cup { TextOf(<<"<t>", "k = v", "</t>", "<t>", "%t%", "k = v", "</t>", "  %t%  ">>) }

\* no parse call has been made yet
NotParsed == \A n \in 1..Len(hist) : hist[n].op # "parse"

NextTemplates ==
    \/ hist = <<>> /\ \E key \in {"k"}, value \in {"0"} : Put(key, value)
    \/ NotParsed /\ \E input \in TemplateDocs : Parse(input)
    \/ \E prettyPrint \in {FALSE} : Text(prettyPrint)

SpecTemplates == Init /\ [][NextTemplates]_vars

\* this step is a call of parse
ParseStep ==
    /\ Len(hist') = Len(hist) + 1
    /\ hist'[Len(hist')].op = "parse"

\* the lines of the stream handed to the parse call of this step
StepInputLines == GetLines(hist'[Len(hist')].args[1])

\* line begins, after leading whitespace, with the characters of mark
BeginsWith(line, mark) ==
    LET pos == FindFirstNotOfWS(line)
    IN  pos # 0 /\ SubSeq(line, pos, pos + Len(mark) - 1) = mark

\* a "<name>" line that is not a closing line has no closing line after it
HasUnclosedDefinition(ls) ==
    \E i \in 1..Len(ls) :
        /\ BeginsWith(ls[i], "<") /\ ~BeginsWith(ls[i], "</")
        /\ \A j \in (i + 1)..Len(ls) : ~BeginsWith(ls[j], "</")

\* a "%name%" line has no "<name>" line anywhere before it
HasUndefinedReference(ls) ==
    \E i \in 1..Len(ls) :
        /\ BeginsWith(ls[i], "%")
        /\ \A j \in 1..(i - 1) : ~BeginsWith(ls[j], "<")

\* the first template line of the stream is a tag shorter than three characters
HasShortTag(ls) ==
    \E i \in 1..Len(ls) :
        /\ BeginsWith(ls[i], "<") /\ Len(trim(ls[i])) < 3
        /\ \A j \in 1..(i - 1) : ~BeginsWith(ls[j], "<") /\ ~BeginsWith(ls[j], "%")

\* C5: a parse that fails on a template error (an undefined reference, a tag that is
\* too short, a definition not closed before the input ends) raises the error and
\* leaves the line sequence and the property table exactly as they were.
C5_FailedParseChangesNothing ==
    [][ParseStep =>
          /\ (HasUnclosedDefinition(StepInputLines) \/ HasUndefinedReference(StepInputLines)
                \/ HasShortTag(StepInputLines)) => ret'.thrown # ""
          /\ ret'.thrown # "" => (lines' = lines /\ props' = props /\ prefixStack' = prefixStack)
      ]_vars

\* C5 witness: an object holding a property has been handed a stream whose second
\* line refers to an undefined template; the call threw
C5_Witness ==
    /\ Len(hist) = 2
    /\ hist[1] = Call("put", <<"k", "0">>)
    /\ Returned("parse", <<"k = v\n%t%\n">>, "", "Template variable is not defined")
    /\ Len(lines) = 1

\* the closing line of a definition opened on line s: the first later line that
\* begins with "</" (0 when there is none)
ClosingLine(ls, s) ==
    IF \E e \in (s + 1)..Len(ls) : BeginsWith(ls[e], "</")
    THEN CHOOSE e \in (s + 1)..Len(ls) :
            /\ BeginsWith(ls[e], "</")
            /\ \A f \in (s + 1)..(e - 1) : ~BeginsWith(ls[f], "</")
    ELSE 0

\* line i opens a definition block: it begins with "<" and lies in no block opened
\* before it
RECURSIVE OpensDefinition(_, _)
OpensDefinition(ls, i) ==
    /\ BeginsWith(ls[i], "<")
    /\ \A s \in 1..(i - 1) : OpensDefinition(ls, s) => ClosingLine(ls, s) < i

\* line i lies in a definition block, its opening and closing lines included
InDefinition(ls, i) ==
    \E s \in 1..i : OpensDefinition(ls, s) /\ i <= ClosingLine(ls, s)

\* the name of a tag or reference line: what stands between its first and last character
NameOf(line) == SubSeq(trim(line), 2, Len(trim(line)) - 1)

\* the definitions of the name of line i that are opened before line i
EarlierDefinitions(ls, i) ==
    {s \in 1..(i - 1) : OpensDefinition(ls, s) /\ NameOf(ls[s]) = NameOf(ls[i])}

\* the most recent of them
LatestDefinition(ls, i) ==
    CHOOSE s \in EarlierDefinitions(ls, i) : \A u \in EarlierDefinitions(ls, i) : u <= s

\* what line i of the stream becomes in the expanded text
ExpansionOf(ls, i) ==
    IF InDefinition(ls, i) THEN <<>>
    ELSE IF BeginsWith(ls[i], "%")
    THEN SubSeq(ls, LatestDefinition(ls, i) + 1, ClosingLine(ls, LatestDefinition(ls, i)) - 1)
    ELSE <<ls[i]>>

\* the expanded text, line by line, from line i on
RECURSIVE ExpansionFrom(_, _)
ExpansionFrom(ls, i) ==
    IF i > Len(ls) THEN <<>> ELSE ExpansionOf(ls, i) \o ExpansionFrom(ls, i + 1)

\* C6: the text parse scans is the input with every definition block (its opening
\* line through its closing line) removed and every reference line replaced by the
\* raw lines of the most recent earlier definition of its name; captured lines are
\* emitted as they are, never expanded again, and all other lines pass through
\* unchanged and in order. (A line of the expanded text is one Line entry.)
C6_ExpansionVerbatim ==
    [][(ParseStep /\ ret'.thrown = "") =>
          /\ Len(lines') >= Len(lines)
          /\ SubSeq(lines', 1, Len(lines)) = lines
          /\ [n \in 1..(Len(lines') - Len(lines)) |-> lines'[Len(lines) + n].line]
                = ExpansionFrom(StepInputLines, 1)
      ]_vars

\* C6 witness: a definition that captures a reference to itself and is replaced by a
\* later definition; the references were expanded once, to the raw captured lines
C6_Witness ==
    /\ Returned("parse",
                 <<TextOf(<<"<t>", "k = v", "</t>", "<t>", "%t%", "k = v", "</t>", "  %t%  ">>)>>,
                 "", "")
    /\ RawLines = <<"%t%", "k = v">>
    /\ DOMAIN props = {"%t%", "k"}

(***************************************************************************)
(* Claims about the mutators and the renderer, checked under Spec          *)
(***************************************************************************)

\* the call made by this step, when it is a parse or mutator call
StepCall == hist'[Len(hist')]

\* this step is a call of the mutator op
MutatorStep(op) ==
    /\ Len(hist') = Len(hist) + 1
    /\ StepCall.op = op

\* what the Line entries write in text(prettyPrint), before and after this step
PiecesBefore(prettyPrint) == TextPieces(lines, props, prettyPrint).pieces
PiecesAfter(prettyPrint) == TextPieces(lines', props', prettyPrint).pieces

\* the number of characters text writes before it comes to entry i
OffsetOf(pieces, i) == Len(Concat(SubSeq(pieces, 1, i - 1)))

\* C7 (as claimed, its last clause): after put(key, value) on an object whose table
\* lacks key, every line that text(false) rendered before the put is rendered
\* unchanged and at the same position.
C7_PutKeepsRenderedLines ==
    [][(MutatorStep("put") /\ ~hasKey(props, StepCall.args[1])) =>
          \A i \in 1..Len(lines) :
              PiecesBefore(FALSE)[i] # "" =>
                  /\ PiecesAfter(FALSE)[i] = PiecesBefore(FALSE)[i]
                  /\ OffsetOf(PiecesAfter(FALSE), i) = OffsetOf(PiecesBefore(FALSE), i)
      ]_vars

\* C8: remove(key) deletes the property when present and does nothing otherwise:
\* afterwards hasKey(key) is false and get(key) is "", every other property and the
\* line sequence are unchanged, and text in either mode writes nothing for a
\* Property entry of key and what it wrote before for every other entry.
C8_RemoveOrphansLines ==
    [][MutatorStep("remove") =>
          LET key == StepCall.args[1]
          IN  /\ ~hasKey(props', key)
              /\ get(props', key) = ""
              /\ DOMAIN props' = DOMAIN props \ {key}
              /\ \A k \in DOMAIN props' : props'[k] = props[k]
              /\ lines' = lines
              /\ \A prettyPrint \in BOOLEAN :
                    /\ text(lines', props', prettyPrint).thrown = ""
                    /\ \A i \in 1..Len(lines) :
                          PiecesAfter(prettyPrint)[i] =
                              IF lines[i].linetype = "Property" /\ lines[i].key = key
                              THEN ""
                              ELSE PiecesBefore(prettyPrint)[i]
      ]_vars

\* C8 witness: a key that two Property entries refer to has been removed, and text
\* has skipped both
C8_Witness ==
    /\ hist = <<Call("parse", <<"# c\n a  =  1 \nb\na = 2\n">>), Call("remove", <<"a">>)>>
    /\ Cardinality({i \in 1..Len(lines) : lines[i].key = "a"}) = 2
    /\ DOMAIN props = {"b"}
    /\ Returned("text", <<FALSE>>, "# c\nb\n", "")

\* no two neighbouring lines of the text out are blank
NoConsecutiveBlankLines(out) ==
    LET ls == GetLines(out)
    IN  \A n \in 1..(Len(ls) - 1) : ~(ls[n] = "" /\ ls[n + 1] = "")

\* the number of blank lines of the text out
BlankLines(out) ==
    LET ls == GetLines(out)
    IN  Cardinality({n \in 1..Len(ls) : ls[n] = ""})

\* C10 (as claimed): text(true) never holds two consecutive blank lines (an Empty
\* entry writes nothing when the line written last was a blank line of an Empty
\* entry), and text(false) holds one blank line for every Empty entry.
C10_PrettyCollapsesBlankLines ==
    /\ (ret.op = "text" /\ ret.args = <<TRUE>> /\ ret.thrown = "")
          => NoConsecutiveBlankLines(ret.val)
    /\ (ret.op = "text" /\ ret.args = <<FALSE>> /\ ret.thrown = "")
          => BlankLines(ret.val)
                = Cardinality({i \in 1..Len(lines) : lines[i].linetype = "Empty"})

(***************************************************************************)
(* SpecBool: the boolean reading of values                                 *)
(***************************************************************************)

BoolValues == {"true", "1", "yes", "no", "0", "false", "", "True", "YES"}

BoolInputs == {"x = yes\ny = no\n", "x\n"}

BoolKeys == {"x", "y"}

NextBool ==
    \/ CanCall /\ \E input \in BoolInputs : Parse(input)
    \/ CanCall /\ \E key \in {"x"}, value \in BoolValues : Put(key, value)
    \/ CanCall /\ \E key \in {"x"} : Remove(key)
    \/ \E key \in BoolKeys, defaultValue \in BOOLEAN : GetBool(key, defaultValue)
    \/ \E key \in BoolKeys : HasKey(key)
    \/ \E key \in BoolKeys, defaultValue \in {"fallback"} : GetOr(key, defaultValue)

SpecBool == Init /\ [][NextBool]_vars

\* C9: getBool(key, default) is default when key is not in the table; otherwise it
\* is true exactly when the value is "true", "1" or "yes" (case matters) and false
\* for every other value, "no", "0", "false" and "" among them, whatever default is.
C9_GetBool ==
    ret.op = "getBool" =>
        LET key == ret.args[1]
            defaultValue == ret.args[2]
        IN  IF key \notin DOMAIN props
            THEN ret.val = defaultValue
            ELSE /\ ret.val = (props[key].value \in {"true", "1", "yes"})
                 /\ props[key].value \in {"no", "0", "false", "", "True", "YES"}
                       => ret.val = FALSE

\* C9 witness: getBool with default true on a key whose value is "no"
C9_Witness ==
    /\ hasKey(props, "y")
    /\ props["y"].value = "no"
    /\ Returned("getBool", <<"y", TRUE>>, FALSE, "")

(***************************************************************************)
(* Rendered text read back by a second object (SpecScan)                   *)
(***************************************************************************)

\* the members of a newly constructed Properties object
Fresh == [lines |-> <<>>, props |-> <<>>, prefixStack |-> <<>>]

\* what a fresh object that parses the text rendered renders in the same mode
Rerendered(rendered, prettyPrint) ==
    LET again == parse(Fresh, rendered)
    IN  IF again.thrown # ""
        THEN [out |-> "", thrown |-> again.thrown]
        ELSE text(again.doc.lines, again.doc.props, prettyPrint)

\* C11 (as claimed): the text R that text(pretty) returns right after a fresh object
\* parsed an input is a fixed point: a fresh object that parses R renders R again
\* in the same mode.
C11_RenderIdempotent ==
    (ParsedOnce /\ ret.op = "text")
        => /\ ret.thrown = ""
           /\ Rerendered(ret.val, ret.args[1]) = [out |-> ret.val, thrown |-> ""]

(***************************************************************************)
(* SpecFrame: the mutators and every observer on one object                *)
(***************************************************************************)

\* the orders in which an unordered_map holding the keys S may be iterated
Orderings(S) ==
    {o \in [1..Cardinality(S) -> S] : \A i, j \in DOMAIN o : i # j => o[i] # o[j]}

\* keys(): the vectors it may return (one per iteration order of props)
keys(ps) == Orderings(DOMAIN ps)

\* values(): the vectors it may return (one per iteration order of props)
values(ps) == {[i \in DOMAIN o |-> ps[o[i]].value] : o \in Orderings(DOMAIN ps)}

\* props.keys()
Keys ==
    /\ \E v \in keys(props) : ret' = Ret("keys", <<>>, v, "")
    /\ UNCHANGED <<lines, props, prefixStack, hist>>

\* props.values()
Values ==
    /\ \E v \in values(props) : ret' = Ret("values", <<>>, v, "")
    /\ UNCHANGED <<lines, props, prefixStack, hist>>

FrameInputs == {"a = 1\n\n# c\n"}
FrameKeys == {"a", "b"}
FrameValues == {"2"}
FrameComments == {"note"}

NextFrame ==
    \/ CanCall /\ \E input \in FrameInputs : Parse(input)
    \/ CanCall /\ \E key \in FrameKeys, value \in FrameValues : Put(key, value)
    \/ CanCall /\ \E key \in FrameKeys : Remove(key)
    \/ CanCall /\ PutEmptyLine
    \/ CanCall /\ \E comment \in FrameComments : PutComment(comment)
    \/ \E key \in FrameKeys : HasKey(key)
    \/ \E key \in FrameKeys : Get(key)
    \/ \E key \in FrameKeys, defaultValue \in BOOLEAN : GetBool(key, defaultValue)
    \/ Keys
    \/ Values
    \/ \E prettyPrint \in BOOLEAN : Text(prettyPrint)

SpecFrame == Init /\ [][NextFrame]_vars

\* the sequence s is an initial part of the sequence t
IsPrefixOf(s, t) == Len(s) <= Len(t) /\ SubSeq(t, 1, Len(s)) = s

\* the step is a call of one of the operations ops
StepOf(ops) == ret'.op \in ops

\* C12: every put, remove, putEmptyLine and putComment leaves the Line entries it
\* found as an initial part of the line sequence; remove, and put on a key that is
\* in the table, leave the sequence as it is; hasKey, get, getBool, keys, values
\* and text change neither the line sequence nor the property table.
C12_LinesAppendOnly ==
    [][ /\ StepOf({"put", "remove", "putEmptyLine", "putComment"})
            => IsPrefixOf(lines, lines')
        /\ StepOf({"remove"}) => lines' = lines
        /\ (StepOf({"put"}) /\ ret'.args[1] \in DOMAIN props) => lines' = lines
        /\ StepOf({"hasKey", "get", "getBool", "keys", "values", "text"})
            => (lines' = lines /\ props' = props)
      ]_vars

\* a comment was appended to parsed lines and put then replaced the value of a
\* parsed key
C12_Witness ==
    /\ Len(hist) = 3
    /\ hist[1].op = "parse"
    /\ hist[2].op = "putComment"
    /\ hist[3] = Call("put", <<"a", "2">>)
    /\ ret.op = "put"
    /\ ret.val = "1"
    /\ Len(lines) = 4

(***************************************************************************)
(* SpecMarkers: a fresh object parses a stream of block markers in any     *)
(* order, which is then read back                                          *)
(***************************************************************************)

\* the number of lines of a stream of markers
MaxMarkerLines == 3

\* lines of a stream of markers: a bare key, the two markers, a line that begins
\* with a marker and goes on, an assignment, a comment and a blank line
MarkerPalette == {"server", " {", "}", "{x = 1", "a = 1", "# c", ""}

MarkerGetKeys == {"a", "server.a", "x"}

NextMarkers ==
    \/ hist = <<>> /\ \E ls \in SeqsUpTo(MarkerPalette, MaxMarkerLines) : Parse(TextOf(ls))
    \/ \E prettyPrint \in BOOLEAN : Text(prettyPrint)
    \/ \E key \in MarkerGetKeys : Get(key)

SpecMarkers == Init /\ [][NextMarkers]_vars

\* the type of a line whose markers are the lines that hold nothing but a brace
KindOf(line) ==
    IF isComment(line) THEN "Comment"
    ELSE IF isEmptyLine(line) THEN "Empty"
    ELSE IF trim(line) = "{" THEN "BlockStart"
    ELSE IF trim(line) = "}" THEN "BlockEnd"
    ELSE "Property"

\* the pending prefix after raw[1..n]: the last property line's key if that line
\* has no assignment
RECURSIVE PendingPrefix(_, _)
PendingPrefix(raw, n) ==
    IF n = 0 THEN ""
    ELSE IF KindOf(raw[n]) # "Property" THEN PendingPrefix(raw, n - 1)
    ELSE IF FindAssign(raw[n]) = 0 THEN trim(raw[n]) ELSE ""

\* the prefix stack after raw[1..n] when only lines of kind BlockStart push (a
\* non-empty pending prefix) and only lines of kind BlockEnd pop
RECURSIVE StackAfter(_, _)
StackAfter(raw, n) ==
    IF n = 0 THEN <<>>
    ELSE LET before == StackAfter(raw, n - 1)
         IN  IF KindOf(raw[n]) = "BlockStart" /\ PendingPrefix(raw, n - 1) # ""
             THEN Append(before, PendingPrefix(raw, n - 1))
             ELSE IF KindOf(raw[n]) = "BlockEnd" /\ before # <<>>
             THEN SubSeq(before, 1, Len(before) - 1)
             ELSE before

\* C13 (as claimed): a line is BlockStart only if its trimmed text is exactly "{"
\* and BlockEnd only if it is exactly "}"; every other line that is neither blank
\* nor a comment, such as "{x = 1", is a Property line and leaves the prefix stack
\* as it is.
C13_ExactMarkers ==
    ParsedOnce =>
        /\ \A i \in 1..Len(lines) : lines[i].linetype = KindOf(RawLines[i])
        /\ prefixStack = StackAfter(RawLines, Len(lines))

(***************************************************************************)
(* SpecMultiline: a fresh object parses a stream with continued values,    *)
(* one of which may then be put, and the text is read back                 *)
(***************************************************************************)

MultilinePalette == {"multiline = a \\", "    b \\", "    c", "a = 1"}

MultilineValues == {" z"}

NextMultiline ==
    \/ hist = <<>> /\ \E ls \in SeqsUpTo(MultilinePalette, MaxLines) : Parse(TextOf(ls))
    \/ Len(hist) = 1 /\ \E value \in MultilineValues : Put("multiline", value)
    \/ \E prettyPrint \in BOOLEAN : Text(prettyPrint)

SpecMultiline == Init /\ [][NextMultiline]_vars

\* the object has parsed one stream and after that at most put values
ParsedThenPut ==
    /\ hist # <<>>
    /\ hist[1].op = "parse"
    /\ \A n \in 2..Len(hist) : hist[n].op = "put"

\* put has been called on the key
WasPut(key) == \E n \in 1..Len(hist) : hist[n].op = "put" /\ hist[n].args[1] = key

\* the Line entry n belongs to a continued value that starts on entry i
ContinuationOf(n) ==
    IF \E i \in 1..(n - 1) :
          /\ lines[i].linetype = "Property"
          /\ StartsContinued(RawLines, i)
          /\ n <= ContinuedTo(RawLines, i)
          /\ \A m \in (i + 1)..n : lines[m].linetype = "MultilineValue"
    THEN CHOOSE i \in 1..(n - 1) :
          /\ lines[i].linetype = "Property"
          /\ StartsContinued(RawLines, i)
          /\ n <= ContinuedTo(RawLines, i)
          /\ \A m \in (i + 1)..n : lines[m].linetype = "MultilineValue"
    ELSE 0

\* what text(false) writes for the Line entry n if the lines of a continued value
\* are left as they were until the value is put, and collapsed after that
KeptPiece(n) ==
    LET entry == lines[n]
    IN  IF entry.linetype = "Property" /\ StartsContinued(RawLines, n)
        THEN IF WasPut(entry.key)
             THEN entry.beforeKey \o entry.bareKey \o entry.afterKey \o "="
                  \o entry.beforeValue \o escape(get(props, entry.key)) \o entry.afterValue
                  \o "\n"
             ELSE entry.line \o "\n"
        ELSE IF entry.linetype = "MultilineValue"
        THEN IF ContinuationOf(n) # 0 /\ ~WasPut(lines[ContinuationOf(n)].key)
             THEN entry.line \o "\n"
             ELSE ""
        ELSE TextPieces(lines, props, FALSE).pieces[n]

\* C14 (as claimed): text(false) writes the first line and every continuation line
\* of a continued value that was parsed and never put as they were in the input;
\* once the key was put, the value is written on the first line as escaped text
\* and its continuation lines are not written.
C14_UntouchedMultilineKept ==
    (ParsedThenPut /\ ret.op = "text" /\ ret.args = <<FALSE>>)
        => /\ ret.thrown = ""
           /\ ret.val = Concat([n \in 1..Len(lines) |-> KeptPiece(n)])

(***************************************************************************)
(* The prefix stack against the open blocks (SpecMarkers)                  *)
(***************************************************************************)

\* the number of BlockStart entries among lines[1..n] not yet closed by a BlockEnd
\* entry (a BlockEnd entry with no block open closes nothing)
RECURSIVE OpenBlocks(_)
OpenBlocks(n) ==
    IF n = 0 THEN 0
    ELSE IF lines[n].linetype = "BlockStart" THEN OpenBlocks(n - 1) + 1
    ELSE IF lines[n].linetype = "BlockEnd" /\ OpenBlocks(n - 1) > 0 THEN OpenBlocks(n - 1) - 1
    ELSE OpenBlocks(n - 1)

\* the BlockStart entry that the BlockEnd entry n closes
MatchingStart(n) ==
    CHOOSE m \in 1..(n - 1) :
        /\ lines[m].linetype = "BlockStart"
        /\ OpenBlocks(m - 1) = OpenBlocks(n)
        /\ \A k \in m..(n - 1) : OpenBlocks(k) > OpenBlocks(n)

\* the prefix stack of a fresh object that parsed only the first n lines
StackBefore(n) == parse(Fresh, TextOf(SubSeq(RawLines, 1, n))).doc.prefixStack

\* the lines that hold a bare key
BareKeyLines == {i \in 1..Len(lines) : lines[i].linetype = "Property" /\ lines[i].lacksAssignment}

\* C15 (as claimed): after every line of every input the prefix stack holds one
\* segment per "{" line not yet closed by a "}" line, whatever line came before
\* the "{"; a "}" puts the stack back to what it was before its "{"; and no bare
\* key is on the stack more often than it was written. (Every stream that is cut
\* off after a line is an input as well, so the stack after parse is the stack
\* after each line.)
C15_StackMatchesOpenBlocks ==
    ParsedOnce =>
        /\ Len(prefixStack) = OpenBlocks(Len(lines))
        /\ Len(prefixStack) <= Cardinality(BareKeyLines)
        /\ (/\ lines # <<>>
            /\ lines[Len(lines)].linetype = "BlockEnd"
            /\ OpenBlocks(Len(lines) - 1) > 0)
               => prefixStack = StackBefore(MatchingStart(Len(lines)) - 1)

(***************************************************************************)
(* Rendered property lines against the property table (Spec)               *)
(***************************************************************************)

\* the object parsed one stream, in which no key is written twice, and has since
\* been changed by put and remove only
DistinctKeysThenPutRemove ==
    /\ hist # <<>>
    /\ hist[1].op = "parse"
    /\ \A n \in 2..Len(hist) : hist[n].op \in {"put", "remove"}
    /\ LET parsed == parse(Fresh, hist[1].args[1])
       IN  /\ parsed.thrown = ""
           /\ \A i, j \in 1..Len(parsed.doc.lines) :
                 (/\ i # j
                  /\ parsed.doc.lines[i].linetype = "Property"
                  /\ parsed.doc.lines[j].linetype = "Property")
                     => parsed.doc.lines[i].key # parsed.doc.lines[j].key

\* the Property entries of the key for which text(prettyPrint) writes a line
RenderedLinesOf(key, prettyPrint) ==
    {n \in 1..Len(lines) :
        /\ lines[n].linetype = "Property"
        /\ lines[n].key = key
        /\ TextPieces(lines, props, prettyPrint).pieces[n] # ""}

\* the keys written on Property entries
LineKeys == {lines[n].key : n \in {m \in 1..Len(lines) : lines[m].linetype = "Property"}}

\* C16 (as claimed): after parse of a stream with pairwise distinct keys and any
\* puts and removes, text in either mode writes exactly one property line for each
\* key in the table and none for any other key; a key removed and put again is
\* written once.
C16_OneLinePerKey ==
    (DistinctKeysThenPutRemove /\ ret.op = "text" /\ ret.thrown = "")
        => /\ \A key \in DOMAIN props :
                 Cardinality(RenderedLinesOf(key, ret.args[1])) = 1
           /\ \A key \in LineKeys \ DOMAIN props :
                 RenderedLinesOf(key, ret.args[1]) = {}

(***************************************************************************)
(* The renderer's prefixDepth (SpecMarkers)                                *)
(***************************************************************************)

\* prefixDepth of text after the entries ls[1..n]: one up per BlockStart entry, one
\* down per BlockEnd entry
RECURSIVE PrefixDepthAfter(_, _)
PrefixDepthAfter(ls, n) ==
    IF n = 0 THEN 0
    ELSE PrefixDepthAfter(ls, n - 1)
         + (IF ls[n].linetype = "BlockStart" THEN 1
            ELSE IF ls[n].linetype = "BlockEnd" THEN -1
            ELSE 0)

\* C17 (as claimed): for every document that parse accepted, a "}" line without a
\* "{" line before it included, prefixDepth is at no entry below zero and text, in
\* either mode, returns without an exception.
C17_DepthNeverNegative ==
    (ParsedOnce /\ ret.op = "text")
        => /\ \A n \in 0..Len(lines) : PrefixDepthAfter(lines, n) >= 0
           /\ ret.thrown = ""

====
